---- MODULE Spec2Model ----
(***************************************************************************)
(* django-castor: a content-addressable storage backend (CAStorage) on     *)
(* top of Django's FileSystemStorage, and its helpers in djcastor.utils.   *)
(*                                                                         *)
(* Text (str) values are sequences of one-character strings, byte strings  *)
(* are sequences of small integers.  The filesystem is a set of directory  *)
(* paths and a map from file paths to the bytes they hold, both keyed by   *)
(* normalised absolute POSIX paths.                                        *)
(***************************************************************************)
EXTENDS Integers, Sequences, FiniteSets, TLC

(***************************************************************************)
(* Bounds of the model.                                                    *)
(***************************************************************************)
MaxLen == 2          \* longest content handed to digest() alone, in bytes
MaxChunk == 2        \* largest chunk size of an in-memory source
MaxWidth == 2        \* largest shard width of a store whose path() is called alone
MaxDepth == 2        \* largest shard depth of a store whose path() is called alone
MaxNameLen == 3      \* longest name handed to path()
MaxFiles == 2        \* save is called while fewer files than this exist
MaxStrLen == 4       \* longest string handed to shard() alone

Min(a, b) == IF a < b THEN a ELSE b

(***************************************************************************)
(* Python str primitives.                                                  *)
(***************************************************************************)
sep == "/"
extsep == "."
dot == <<".">>
dotdot == <<".", ".">>

\* s[lo:hi] for 0 <= lo, 0 <= hi: indices past the end are clipped.
Slice(s, lo, hi) == SubSeq(s, Min(lo, Len(s)) + 1, Min(hi, Len(s)))

\* s[lo:]
SliceFrom(s, lo) == Slice(s, lo, Len(s))

\* s.startswith(p)
StartsWith(s, p) == Len(p) <= Len(s) /\ SubSeq(s, 1, Len(p)) = p

\* s.endswith(c) for a single character c
EndsWithChar(s, c) == s # <<>> /\ s[Len(s)] = c

\* s.rfind(c) + 1: the 1-based index of the last c in s, 0 when there is none
RFind1(s, c) ==
    IF \E i \in 1..Len(s) : s[i] = c
    THEN CHOOSE i \in 1..Len(s) : s[i] = c /\ \A j \in (i+1)..Len(s) : s[j] # c
    ELSE 0

\* s.rstrip(c)
RECURSIVE RStrip(_, _)
RStrip(s, c) ==
    IF EndsWithChar(s, c) THEN RStrip(SubSeq(s, 1, Len(s) - 1), c) ELSE s

\* s.split(c): the list of the pieces of s between occurrences of c
RECURSIVE Split(_, _)
Split(s, c) ==
    IF \E i \in 1..Len(s) : s[i] = c
    THEN LET i == CHOOSE k \in 1..Len(s) : s[k] = c /\ \A j \in 1..(k-1) : s[j] # c
         IN  <<SubSeq(s, 1, i - 1)>> \o Split(SubSeq(s, i + 1, Len(s)), c)
    ELSE <<s>>

\* c.join(parts)
RECURSIVE JoinWith(_, _)
JoinWith(c, parts) ==
    IF parts = <<>> THEN <<>>
    ELSE IF Len(parts) = 1 THEN parts[1]
    ELSE parts[1] \o <<c>> \o JoinWith(c, Tail(parts))

(***************************************************************************)
(* posixpath.                                                              *)
(***************************************************************************)
Cwd == <<"/", "w">>

isabs(p) == StartsWith(p, <<sep>>)

\* posixpath.join(a, *p)
RECURSIVE join(_, _)
join(a, p) ==
    IF p = <<>> THEN a
    ELSE LET b == Head(p)
         IN  IF StartsWith(b, <<sep>>) THEN join(b, Tail(p))
             ELSE IF a = <<>> \/ EndsWithChar(a, sep) THEN join(a \o b, Tail(p))
             ELSE join(a \o <<sep>> \o b, Tail(p))

\* the loop of posixpath.normpath over the components of the path
RECURSIVE NormComps(_, _, _)
NormComps(comps, new_comps, initial_slashes) ==
    IF comps = <<>> THEN new_comps
    ELSE LET comp == Head(comps)
         IN  IF comp = <<>> \/ comp = dot
             THEN NormComps(Tail(comps), new_comps, initial_slashes)
             ELSE IF \/ comp # dotdot
                     \/ (initial_slashes = 0 /\ new_comps = <<>>)
                     \/ (new_comps # <<>> /\ new_comps[Len(new_comps)] = dotdot)
             THEN NormComps(Tail(comps), Append(new_comps, comp), initial_slashes)
             ELSE IF new_comps # <<>>
             THEN NormComps(Tail(comps), SubSeq(new_comps, 1, Len(new_comps) - 1),
                            initial_slashes)
             ELSE NormComps(Tail(comps), new_comps, initial_slashes)

\* posixpath.normpath(path)
normpath(path) ==
    IF path = <<>> THEN dot
    ELSE LET initial_slashes ==
                 IF ~StartsWith(path, <<sep>>) THEN 0
                 ELSE IF StartsWith(path, <<sep, sep>>) /\ ~StartsWith(path, <<sep, sep, sep>>)
                 THEN 2 ELSE 1
             comps == NormComps(Split(path, sep), <<>>, initial_slashes)
             joined == [i \in 1..initial_slashes |-> sep] \o JoinWith(sep, comps)
         IN  IF joined = <<>> THEN dot ELSE joined

\* posixpath.abspath(path)
abspath(path) == normpath(IF isabs(path) THEN path ELSE join(Cwd, <<path>>))

\* posixpath.dirname(p)
dirname(p) ==
    LET i == RFind1(p, sep)
        head == SubSeq(p, 1, i)
    IN  IF head # <<>> /\ head # [k \in 1..Len(head) |-> sep]
        THEN RStrip(head, sep) ELSE head

\* posixpath.basename(p)
basename(p) == SubSeq(p, RFind1(p, sep) + 1, Len(p))

\* the loop of genericpath._splitext that skips the leading dots
RECURSIVE SplitextScan(_, _, _)
SplitextScan(p, filenameIndex, dotIndex) ==
    IF filenameIndex < dotIndex
    THEN IF p[filenameIndex + 1] # extsep
         THEN <<SubSeq(p, 1, dotIndex), SliceFrom(p, dotIndex)>>
         ELSE SplitextScan(p, filenameIndex + 1, dotIndex)
    ELSE <<p, <<>>>>

\* posixpath.splitext(p): (root, ext); the indices are 0-based as in the code
splitext(p) ==
    LET sepIndex == RFind1(p, sep) - 1
        dotIndex == RFind1(p, extsep) - 1
    IN  IF dotIndex > sepIndex
        THEN SplitextScan(p, sepIndex + 1, dotIndex)
        ELSE <<p, <<>>>>

\* posixpath.relpath(path, start)
relpath(path, start) ==
    LET start_list == SelectSeq(Split(abspath(start), sep), LAMBDA x : x # <<>>)
        path_list == SelectSeq(Split(abspath(path), sep), LAMBDA x : x # <<>>)
        common == {k \in 0..Min(Len(start_list), Len(path_list)) :
                      \A j \in 1..k : start_list[j] = path_list[j]}
        i == CHOOSE k \in common : \A m \in common : m <= k
        rel_list == [k \in 1..(Len(start_list) - i) |-> dotdot]
                        \o SubSeq(path_list, i + 1, Len(path_list))
    IN  IF rel_list = <<>> THEN dot ELSE join(Head(rel_list), Tail(rel_list))

(***************************************************************************)
(* Results of calls.  A call either returns (err = "none") or raises the   *)
(* exception named by err.  None is the empty value.                       *)
(***************************************************************************)
None == <<>>
Return(v) == [err |-> "none", ret |-> v]
Raise(e) == [err |-> e, ret |-> None]

\* django.core.exceptions: SuspiciousFileOperation is a SuspiciousOperation
IsSuspiciousOperation(e) == e \in {"SuspiciousOperation", "SuspiciousFileOperation"}

(***************************************************************************)
(* djcastor.utils: hashing.  digestmod is an incremental hash with the     *)
(* interface of hashlib (new, update, hexdigest); the model computes a     *)
(* 16-bit multiplicative hash in place of SHA-1.                           *)
(***************************************************************************)
HashSeed == 5381
HashMul == 33
HashMod == 65536
DEFAULT_CHUNK_SIZE == 65536
Hex == <<"0", "1", "2", "3", "4", "5", "6", "7",
         "8", "9", "a", "b", "c", "d", "e", "f">>

\* digestmod()
digestmod == HashSeed

\* digest.update(chunk) for a bytes chunk
RECURSIVE update(_, _)
update(h, chunk) ==
    IF chunk = <<>> THEN h
    ELSE update((h * HashMul + Head(chunk)) % HashMod, Tail(chunk))

\* digest.hexdigest()
hexdigest(h) ==
    <<Hex[((h \div 4096) % 16) + 1], Hex[((h \div 256) % 16) + 1],
      Hex[((h \div 16) % 16) + 1], Hex[(h % 16) + 1]>>

\* File.chunks(chunk_size) of a file holding data, opened in the given mode:
\* the chunks read(chunk_size) returns until it returns an empty one.  A file
\* opened in text mode yields str chunks, one opened in binary mode bytes.
RECURSIVE chunks(_, _, _)
chunks(data, chunk_size, mode) ==
    IF data = <<>> THEN <<>>
    ELSE <<[type |-> mode, val |-> Slice(data, 0, chunk_size)]>>
             \o chunks(SliceFrom(data, chunk_size), chunk_size, mode)

\* the loop of hash_chunks: update() accepts bytes and raises TypeError on str
RECURSIVE HashLoop(_, _)
HashLoop(h, iterator) ==
    IF iterator = <<>> THEN [err |-> "none", h |-> h]
    ELSE IF Head(iterator).type # "bytes" THEN [err |-> "TypeError", h |-> h]
    ELSE HashLoop(update(h, Head(iterator).val), Tail(iterator))

hash_chunks(iterator) ==
    LET r == HashLoop(digestmod, iterator)
    IN  IF r.err # "none" THEN Raise(r.err) ELSE Return(hexdigest(r.h))

\* hash_filename(filename) of a file holding data: open(filename) is text mode
hash_filename(data) == hash_chunks(chunks(data, DEFAULT_CHUNK_SIZE, "str"))

\* content.seek(offset)
seek(content, offset) == [content EXCEPT !.pos = offset]

\* content.chunks() of a File open in the given mode: seek(0), then the chunks
\* read from there to the end
File_chunks(content, mode) ==
    chunks(SliceFrom(content.data, seek(content, 0).pos), content.chunk_size, mode)

\* the content after content.chunks() has been run to its end
File_exhausted(content) == [content EXCEPT !.pos = Len(content.data)]

(***************************************************************************)
(* djcastor.utils.shard                                                    *)
(***************************************************************************)
\* the remainder yielded last whatever rest_only says
shard_rest_always(string, width, depth, rest_only) ==
    [i \in 1..depth |-> Slice(string, width * (i - 1), width * i)]
        \o <<SliceFrom(string, width * depth)>>

\* the loop stopping at the end of the string
shard_until_end(string, width, depth, rest_only) ==
    [i \in 1..Min(depth, IF width = 0 THEN depth ELSE (Len(string) + width - 1) \div width)
        |-> Slice(string, width * (i - 1), width * i)]
        \o <<IF rest_only THEN SliceFrom(string, width * depth) ELSE string>>

\* the whole string yielded last whatever rest_only says
shard_whole_always(string, width, depth, rest_only) ==
    [i \in 1..depth |-> Slice(string, width * (i - 1), width * i)]
        \o <<string>>

shard(string, width, depth, rest_only) ==
    [i \in 1..depth |-> Slice(string, width * (i - 1), width * i)]
        \o <<IF rest_only THEN SliceFrom(string, width * depth) ELSE string>>

(***************************************************************************)
(* django.utils._os.safe_join(base, *paths)                                *)
(***************************************************************************)
\* the join without the test against the base
safe_join_unchecked(base, paths) == Return(abspath(join(base, paths)))

safe_join(base, paths) ==
    LET final_path == abspath(join(base, paths))
        base_path == abspath(base)
    IN  IF /\ ~StartsWith(final_path, base_path \o <<sep>>)
           /\ final_path # base_path
           /\ dirname(base_path) # base_path
        THEN Raise("SuspiciousFileOperation")
        ELSE Return(final_path)

(***************************************************************************)
(* The store and the filesystem.                                           *)
(***************************************************************************)
VARIABLES
    keep_extension,   \* CAStorage.keep_extension
    shard_width,      \* CAStorage.shard_width
    shard_depth,      \* CAStorage.shard_depth
    base_url,         \* FileSystemStorage._base_url: <<>> for None, <<u>> for the str u
    files,            \* file path |-> the bytes of the file
    dirs,             \* the directories that exist
    lastOp,           \* the last call made by a sequential caller and its outcome
    procs             \* the concurrent callers, of _save or of a removal

vars == <<keep_extension, shard_width, shard_depth, base_url, files, dirs, lastOp, procs>>
config == <<keep_extension, shard_width, shard_depth, base_url>>

\* base_url=None
NoUrl == <<>>

\* FileSystemStorage.location: the absolute path of the root directory
Location == <<"/", "d">>
Root == <<"/">>

\* the inputs: contents, each as an in-memory file read in chunks of some
\* size or as an uploaded file with a temporary_file_path, with its read
\* position (pos) at the start; names
Bytes == {0, 1}
AllContents == UNION {[1..n -> Bytes] : n \in 0..MaxLen}
SourcesOf(contents) ==
    [kind : {"mem"}, data : contents, chunk_size : 1..MaxChunk, pos : {0}]
        \cup [kind : {"tmp"}, data : contents, chunk_size : {DEFAULT_CHUNK_SIZE}, pos : {0}]

\* the in-memory sources, with the read position anywhere
SourcesAt(contents) ==
    UNION {{seek(c, at) : at \in 0..Len(c.data)} :
              c \in {m \in SourcesOf(contents) : m.kind = "mem"}}
Contents == {<<>>, <<0, 0>>, <<0, 1>>}
Sources == SourcesOf(Contents)
SaveNames == {<<"a", ".", "p">>, <<"b", ".", "t">>, <<"a">>, <<".", "p">>,
              <<"a", ".", "/", "b">>}
Shardings == {<<2, 2>>, <<1, 1>>, <<2, 0>>}
PathChars == {"a", ".", "/"}
PathNames == UNION {[1..n -> PathChars] : n \in 0..MaxNameLen}

\* os.path.exists(p)
exists(p) == p \in DOMAIN files \/ p \in dirs

\* os.listdir(d), for a directory d that exists
listdirIn(d, fs, ds) == {q \in (DOMAIN fs) \cup ds : q # d /\ dirname(q) = d}
listdir(d) == listdirIn(d, files, dirs)

\* p and the directories above it, up to the filesystem root
RECURSIVE Ancestors(_)
Ancestors(p) == IF dirname(p) = p \/ p = <<>> THEN {p} ELSE {p} \cup Ancestors(dirname(p))

\* the outcome of a call that changes the filesystem
Outcome(err, ret, wrote, fs, ds) ==
    [err |-> err, ret |-> ret, wrote |-> wrote, files |-> fs, dirs |-> ds]

(***************************************************************************)
(* djcastor.utils.rm_file_and_empty_parents                                *)
(***************************************************************************)
\* the while loop without the test that stops it at the root
RECURSIVE PruneWalkPastRoot(_, _, _, _)
PruneWalkPastRoot(directory, root, fs, ds) ==
    IF directory \notin ds
    THEN [err |-> "FileNotFoundError", dirs |-> ds]
    ELSE IF listdirIn(directory, fs, ds) # {}
    THEN [err |-> "none", dirs |-> ds]
    ELSE IF directory = Root
    THEN [err |-> "OSError", dirs |-> ds]
    ELSE PruneWalkPastRoot(dirname(directory), root, fs, ds \ {directory})

\* the while loop without the listdir test: every directory up to the root goes
RECURSIVE PruneWalkUnlisted(_, _, _, _)
PruneWalkUnlisted(directory, root, fs, ds) ==
    IF directory \notin ds
    THEN [err |-> "FileNotFoundError", dirs |-> ds]
    ELSE IF root # None /\ directory = root
    THEN [err |-> "none", dirs |-> ds]
    ELSE IF directory = Root
    THEN [err |-> "OSError", dirs |-> ds]
    ELSE PruneWalkUnlisted(dirname(directory), root, fs, ds \ {directory})

\* the while loop: the outcome is the error, if any, and the directories left
RECURSIVE PruneWalk(_, _, _, _)
PruneWalk(directory, root, fs, ds) ==
    IF root # None /\ directory \notin ds
    THEN [err |-> "FileNotFoundError", dirs |-> ds]       \* stat(directory)
    ELSE IF root # None /\ directory = root
    THEN [err |-> "none", dirs |-> ds]                    \* samestat
    ELSE IF directory \notin ds
    THEN [err |-> "FileNotFoundError", dirs |-> ds]       \* listdir(directory)
    ELSE IF listdirIn(directory, fs, ds) # {}
    THEN [err |-> "none", dirs |-> ds]                    \* break
    ELSE IF directory = Root
    THEN [err |-> "OSError", dirs |-> ds]                 \* rmdir("/")
    ELSE PruneWalk(dirname(directory), root, fs, ds \ {directory})

rm_file_and_empty_parents(filename, root) ==
    IF root # None /\ ~exists(root)
    THEN Outcome("FileNotFoundError", None, FALSE, files, dirs)       \* stat(root)
    ELSE IF filename \in dirs
    THEN Outcome("OSError", None, FALSE, files, dirs)                 \* unlink(dir)
    ELSE IF filename \notin DOMAIN files
    THEN Outcome("FileNotFoundError", None, FALSE, files, dirs)       \* unlink
    ELSE LET fs == [f \in (DOMAIN files) \ {filename} |-> files[f]]
             w == PruneWalk(dirname(filename), root, fs, dirs)
         IN  Outcome(w.err, None, FALSE, fs, w.dirs)

\* a write that finds the source at its end
ConcatExhausted(cs) == <<>>

\* the bytes of a sequence of chunks, one after the other
RECURSIVE Concat(_)
Concat(cs) == IF cs = <<>> THEN <<>> ELSE Head(cs).val \o Concat(Tail(cs))

(***************************************************************************)
(* CAStorage                                                               *)
(***************************************************************************)
\* CAStorage.get_available_name(name)
get_available_name(name) == name

\* CAStorage.digest(content): a content with a temporary_file_path is hashed
\* from that file, any other from its chunks (and then rewound)
digest(content) ==
    IF content.kind = "tmp"
    THEN hash_filename(content.data)
    ELSE hash_chunks(File_chunks(content, "bytes"))

\* the content left where hashing ended
digested_not_rewound(content) ==
    IF content.kind = "tmp" THEN content ELSE File_exhausted(content)

\* the content after digest(content) has returned: lines 89-90 read the chunks
\* to the end and seek back to the start; a temporary file is hashed through
\* a file object of its own
digested(content) ==
    IF content.kind = "tmp" THEN content ELSE seek(File_exhausted(content), 0)

\* CAStorage.shard(hexdigest)
CAStorage_shard(name) == shard(name, shard_width, shard_depth, FALSE)

\* CAStorage.path(name)
path(name) ==
    LET shards == CAStorage_shard(name)
        joined == safe_join(Location, shards)
    IN  IF joined.err = "ValueError" THEN Raise("SuspiciousOperation")
        ELSE IF joined.err # "none" THEN joined
        ELSE Return(normpath(joined.ret))

(***************************************************************************)
(* URLs: urllib.parse and django.utils.encoding.filepath_to_uri, as used   *)
(* by FileSystemStorage.url.  The URLs of the model carry no params, query *)
(* or fragment: quote() encodes ";", "?" and "#" in a name.                *)
(***************************************************************************)
\* settings.MEDIA_URL, the base URL of a store constructed without one
MEDIA_URL == <<>>

Letters == {"a", "b", "c", "d", "e", "f", "g", "h", "i", "j", "k", "l", "m",
            "n", "o", "p", "q", "r", "s", "t", "u", "v", "w", "x", "y", "z"}
Digits == {"0", "1", "2", "3", "4", "5", "6", "7", "8", "9"}

\* urllib.parse: scheme_chars, and the schemes of uses_relative and
\* uses_netloc the model's URLs can have
scheme_chars == Letters \cup Digits \cup {"+", "-", "."}
uses_relative == {<<>>, <<"h", "t", "t", "p">>}
uses_netloc == {<<>>, <<"h", "t", "t", "p">>}

\* the characters quote() never encodes, and the safe argument of
\* filepath_to_uri
always_safe == Letters \cup Digits \cup {"_", ".", "-", "~"}
uri_safe == {"/", "~", "!", "*", "(", ")", "'"}

\* the percent-encoding of a character that is not safe
PercentEncoded(c) ==
    CASE c = " " -> <<"%", "2", "0">>
      [] c = "%" -> <<"%", "2", "5">>
      [] c = ":" -> <<"%", "3", "A">>
      [] c = "\\" -> <<"%", "5", "C">>

\* s.replace(old, new) for single characters
Replace(s, old, new) == [i \in 1..Len(s) |-> IF s[i] = old THEN new ELSE s[i]]

\* s.lstrip(c)
RECURSIVE LStrip(_, _)
LStrip(s, c) == IF s # <<>> /\ Head(s) = c THEN LStrip(Tail(s), c) ELSE s

\* s.find(c) + 1: the 1-based index of the first c in s, 0 when there is none
Find1(s, c) ==
    IF \E i \in 1..Len(s) : s[i] = c
    THEN CHOOSE i \in 1..Len(s) : s[i] = c /\ \A j \in 1..(i - 1) : s[j] # c
    ELSE 0

\* urllib.parse.quote(string, safe)
RECURSIVE quote(_, _)
quote(string, safe) ==
    IF string = <<>> THEN <<>>
    ELSE (IF Head(string) \in always_safe \cup safe
          THEN <<Head(string)>> ELSE PercentEncoded(Head(string)))
             \o quote(Tail(string), safe)

\* django.utils.encoding.filepath_to_uri(path)
filepath_to_uri(p) == quote(Replace(p, "\\", "/"), uri_safe)

\* urllib.parse.urlsplit(url, scheme): scheme, netloc and path
urlsplit(url, scheme) ==
    LET i == Find1(url, ":")
        has_scheme == /\ i > 1
                      /\ url[1] \in Letters
                      /\ \A k \in 1..(i - 1) : url[k] \in scheme_chars
        rest == IF has_scheme THEN SubSeq(url, i + 1, Len(url)) ELSE url
        after == SubSeq(rest, 3, Len(rest))
        end == IF Find1(after, "/") = 0 THEN Len(after) ELSE Find1(after, "/") - 1
    IN  [scheme |-> IF has_scheme THEN SubSeq(url, 1, i - 1) ELSE scheme,
         netloc |-> IF StartsWith(rest, <<"/", "/">>) THEN SubSeq(after, 1, end) ELSE <<>>,
         path |-> IF StartsWith(rest, <<"/", "/">>)
                  THEN SubSeq(after, end + 1, Len(after)) ELSE rest]

\* urllib.parse.urlunsplit of scheme, netloc and path
urlunsplit(scheme, netloc, url) ==
    LET with_netloc ==
            IF \/ netloc # <<>>
               \/ (scheme # <<>> /\ scheme \in uses_netloc /\ ~StartsWith(url, <<"/", "/">>))
            THEN <<"/", "/">> \o netloc
                     \o (IF url # <<>> /\ Head(url) # "/" THEN <<"/">> ELSE <<>>) \o url
            ELSE url
    IN  IF scheme # <<>> THEN scheme \o <<":">> \o with_netloc ELSE with_netloc

\* the loop of urljoin that resolves "." and ".." segments
RECURSIVE ResolveSegments(_, _)
ResolveSegments(segments, resolved_path) ==
    IF segments = <<>> THEN resolved_path
    ELSE IF Head(segments) = dotdot
    THEN ResolveSegments(Tail(segments),
                         SubSeq(resolved_path, 1, Len(resolved_path) - 1))
    ELSE IF Head(segments) = dot
    THEN ResolveSegments(Tail(segments), resolved_path)
    ELSE ResolveSegments(Tail(segments), Append(resolved_path, Head(segments)))

\* segments[1:-1] = filter(None, segments[1:-1])
FilterMiddle(segments) ==
    IF Len(segments) < 2 THEN segments
    ELSE <<Head(segments)>>
             \o SelectSeq(SubSeq(segments, 2, Len(segments) - 1), LAMBDA x : x # <<>>)
             \o <<segments[Len(segments)]>>

\* urllib.parse.urljoin(base, url)
urljoin(base, url) ==
    IF base = <<>> THEN url
    ELSE IF url = <<>> THEN base
    ELSE LET b == urlsplit(base, <<>>)
             u == urlsplit(url, b.scheme)
             netloc == IF u.scheme \in uses_netloc THEN b.netloc ELSE u.netloc
             split_base == Split(b.path, "/")
             base_parts == IF split_base[Len(split_base)] # <<>>
                           THEN SubSeq(split_base, 1, Len(split_base) - 1)
                           ELSE split_base
             segments == IF StartsWith(u.path, <<"/">>)
                         THEN Split(u.path, "/")
                         ELSE FilterMiddle(base_parts \o Split(u.path, "/"))
             resolved_path == ResolveSegments(segments, <<>>)
                                  \o (IF segments[Len(segments)] \in {dot, dotdot}
                                      THEN <<<<>>>> ELSE <<>>)
             joined == JoinWith("/", resolved_path)
         IN  IF u.scheme # b.scheme \/ u.scheme \notin uses_relative THEN url
             ELSE IF u.scheme \in uses_netloc /\ u.netloc # <<>>
             THEN urlunsplit(u.scheme, u.netloc, u.path)
             ELSE IF u.path = <<>> THEN urlunsplit(u.scheme, netloc, b.path)
             ELSE urlunsplit(u.scheme, netloc, IF joined = <<>> THEN <<"/">> ELSE joined)

\* FileSystemStorage.base_url: the base URL given, else the setting
FileSystemStorage_base_url == IF base_url = NoUrl THEN MEDIA_URL ELSE base_url[1]

\* FileSystemStorage.url(name)
FileSystemStorage_url(name) ==
    Return(urljoin(FileSystemStorage_base_url, LStrip(filepath_to_uri(name), "/")))

\* CAStorage.url(name)
url(name) == FileSystemStorage_url(JoinWith("/", CAStorage_shard(name)))

\* the extension appended whatever keep_extension says
stored_name_always_ext(d, name) == d \o splitext(name)[2]

\* lines 125-126 of _save: the digest, followed by the extension when kept
stored_name(d, name) == IF keep_extension THEN d \o splitext(name)[2] ELSE d

\* FileSystemStorage._save(name, content), run without interference: create the
\* missing directories, create the file exclusively, write the content (a
\* temporary file is moved into place), return the path relative to location.
\* When the file exists the code asks get_available_name for another name and
\* tries again; CAStorage returns the same name, so that loop does not end.
FileSystemStorage_save(name, content) ==
    LET full_path == path(name)
        directory == dirname(full_path.ret)
        written == IF content.kind = "tmp" THEN content.data
                   ELSE Concat(File_chunks(content, "bytes"))
    IN  IF full_path.err # "none"
        THEN Outcome(full_path.err, None, FALSE, files, dirs)
        ELSE IF \E a \in Ancestors(directory) : a \in DOMAIN files
        THEN Outcome("FileExistsError", None, FALSE, files, dirs)
        ELSE IF exists(full_path.ret) /\ get_available_name(name) = name
        THEN Outcome("NoReturn", None, FALSE, files, dirs \cup Ancestors(directory))
        ELSE Outcome("none", relpath(full_path.ret, Location), TRUE,
                     (full_path.ret :> written) @@ files,
                     dirs \cup Ancestors(directory))

\* CAStorage._save(name, content)
CAStorage_save(name, content) ==
    LET d == digest(content)
        stored == stored_name(d.ret, name)
        p == path(stored)
    IN  IF d.err # "none" THEN Outcome(d.err, None, FALSE, files, dirs)
        ELSE IF p.err # "none" THEN Outcome(p.err, None, FALSE, files, dirs)
        ELSE IF exists(p.ret) THEN Outcome("none", stored, FALSE, files, dirs)
        ELSE FileSystemStorage_save(stored, digested(content))

\* a delete that does not look at sure
CAStorage_delete_unasked(name, sure) ==
    rm_file_and_empty_parents(
        IF \E i \in 1..Len(name) : name[i] = sep THEN name ELSE path(name).ret, Location)

\* CAStorage.delete(name, sure).  With sure set, line 119 reads the attribute
\* `sep` of the local str `path` (os.path is imported as os_path), which
\* raises AttributeError before the name is resolved or anything is removed.
CAStorage_delete(name, sure) ==
    IF ~sure
    THEN Outcome("none", None, FALSE, files, dirs)
    ELSE Outcome("AttributeError", None, FALSE, files, dirs)

(***************************************************************************)
(* The calls of a sequential caller.                                       *)
(***************************************************************************)
Call(op, name, data, kind, sure, err, ret, wrote) ==
    [op |-> op, name |-> name, data |-> data, kind |-> kind, sure |-> sure,
     err |-> err, ret |-> ret, wrote |-> wrote]

NoCall == Call("none", <<>>, <<>>, "", FALSE, "none", None, FALSE)

\* the concurrent callers of _save, and a caller that has not called yet
Procs == {1, 2}
Idle == [pc |-> "idle", content |-> [kind |-> "", data |-> <<>>, chunk_size |-> 0, pos |-> 0],
         name |-> <<>>, full_path |-> <<>>, resolved |-> <<>>, todo |-> <<>>,
         err |-> "none", ret |-> None]
NoProcs == [p \in Procs |-> Idle]

\* the base URL never appended to
CAStorage_init_base_url_as_given(given) == given

\* lines 74-75 of __init__: a base URL that is given and does not end with
\* "/" gets one appended; None stays None
CAStorage_init_base_url(given) ==
    IF given # NoUrl /\ ~EndsWithChar(given[1], "/")
    THEN <<given[1] \o <<"/">>>>
    ELSE given

\* CAStorage.__init__(location, base_url, keep_extension, sharding), over an
\* empty location
CAStorage_init(given_base_url, keep, sharding) ==
    /\ base_url = CAStorage_init_base_url(given_base_url)
    /\ keep_extension = keep
    /\ shard_width = sharding[1]
    /\ shard_depth = sharding[2]
    /\ files = <<>>
    /\ dirs = {Root, Location}
    /\ lastOp = NoCall
    /\ procs = NoProcs

\* a store just constructed without a base URL
Constructed(keep, sharding) == CAStorage_init(NoUrl, keep, sharding)

Init == \E keep \in BOOLEAN, sharding \in Shardings : Constructed(keep, sharding)

\* a store constructed with the default keep_extension and sharding
InitConc == Constructed(TRUE, <<2, 2>>)

Save(name, content) ==
    /\ Cardinality(DOMAIN files) < MaxFiles
    /\ \E r \in {CAStorage_save(name, content)} :
           /\ files' = r.files
           /\ dirs' = r.dirs
           /\ lastOp' = Call("save", name, content.data, content.kind, FALSE,
                             r.err, r.ret, r.wrote) @@ [pos |-> content.pos]
    /\ UNCHANGED <<config, procs>>

\* the names delete is called with: stored names, physical paths, a stranger
MissingName == <<"x">>
DeleteNames == {basename(f) : f \in DOMAIN files} \cup DOMAIN files \cup {MissingName}

Delete(name, sure) ==
    /\ \E r \in {CAStorage_delete(name, sure)} :
           /\ files' = r.files
           /\ dirs' = r.dirs
           /\ lastOp' = Call("delete", name, <<>>, "", sure, r.err, r.ret, FALSE)
    /\ UNCHANGED <<config, procs>>

MissingFile == Location \o <<sep, "x">>
Roots == {Location}

RmFileAndEmptyParents(filename, root) ==
    /\ \E r \in {rm_file_and_empty_parents(filename, root)} :
           /\ files' = r.files
           /\ dirs' = r.dirs
           /\ lastOp' = Call("rm", filename, <<>>, "", TRUE, r.err, r.ret, FALSE)
    /\ UNCHANGED <<config, procs>>

Next ==
    \/ \E name \in SaveNames, content \in Sources : Save(name, content)
    \/ \E name \in DeleteNames, sure \in BOOLEAN : Delete(name, sure)
    \/ \E filename \in (DOMAIN files) \cup {MissingFile}, root \in Roots :
           RmFileAndEmptyParents(filename, root)

Spec == Init /\ [][Next]_vars

(***************************************************************************)
(* Calls of the functions that read no file: path and digest.              *)
(***************************************************************************)
CallPath(name) ==
    /\ \E r \in {path(name)} :
           lastOp' = Call("path", name, <<>>, "", FALSE, r.err, r.ret, FALSE)
    /\ UNCHANGED <<config, files, dirs, procs>>

CallDigest(content) ==
    /\ \E r \in {digest(content)} :
           lastOp' = Call("digest", <<>>, content.data, content.kind, FALSE,
                          r.err, r.ret, FALSE)
    /\ UNCHANGED <<config, files, dirs, procs>>

InitPure ==
    \E keep \in BOOLEAN, sharding \in (1..MaxWidth) \X (0..MaxDepth) :
        Constructed(keep, sharding)

NextPure ==
    \/ \E name \in PathNames : CallPath(name)
    \/ \E content \in SourcesOf(AllContents) : CallDigest(content)

SpecPure == InitPure /\ [][NextPure]_vars

(***************************************************************************)
(* Calls of shard: the function of djcastor.utils with arguments of the    *)
(* caller's choice, and the method of the store with its own width and     *)
(* depth.  The generator is run to its end, as list() does.                *)
(***************************************************************************)
ShardChars == {"a", "b"}
ShardStrings == UNION {[1..n -> ShardChars] : n \in 0..MaxStrLen}

ShardCall(string, width, depth, rest_only, ret) ==
    [op |-> "shard", string |-> string, width |-> width, depth |-> depth,
     rest_only |-> rest_only, ret |-> ret]

CallShard(string, width, depth, rest_only) ==
    /\ lastOp' = ShardCall(string, width, depth, rest_only,
                           shard(string, width, depth, rest_only))
    /\ UNCHANGED <<config, files, dirs, procs>>

CallStoreShard(name) ==
    /\ lastOp' = ShardCall(name, shard_width, shard_depth, FALSE, CAStorage_shard(name))
    /\ UNCHANGED <<config, files, dirs, procs>>

InitShard == \E sharding \in Shardings : Constructed(TRUE, sharding)

NextShard ==
    \/ \E string \in ShardStrings, width \in 0..MaxWidth, depth \in 0..MaxDepth,
          rest_only \in BOOLEAN : CallShard(string, width, depth, rest_only)
    \/ \E name \in ShardStrings : CallStoreShard(name)

SpecShard == InitShard /\ [][NextShard]_vars

(***************************************************************************)
(* Calls of digest and _save with a content whose read position is not at  *)
(* the start.                                                              *)
(***************************************************************************)
SeekNames == {<<"a", ".", "p">>, <<"a">>}

DigestCall(content, err, ret, after) ==
    [op |-> "digest_at", data |-> content.data, kind |-> content.kind,
     pos |-> content.pos, err |-> err, ret |-> ret, after |-> after.pos]

CallDigestAt(content) ==
    /\ \E r \in {digest(content)} :
           lastOp' = DigestCall(content, r.err, r.ret, digested(content))
    /\ UNCHANGED <<config, files, dirs, procs>>

NextSeek ==
    \/ \E name \in SeekNames, content \in SourcesAt(Contents) : Save(name, content)
    \/ \E content \in SourcesAt(Contents) : CallDigestAt(content)

SpecSeek == InitConc /\ [][NextSeek]_vars

(***************************************************************************)
(* Calls of url, on stores constructed with and without a base URL.        *)
(***************************************************************************)
UrlChars == {"a", ".", "/", " "}
UrlNames == UNION {[1..n -> UrlChars] : n \in 0..MaxNameLen}

\* base_url as given to the constructor: None, "", "/m", "/m/", "http://n/m"
GivenBaseUrls ==
    {NoUrl, <<<<>>>>, <<<<"/", "m">>>>, <<<<"/", "m", "/">>>>,
     <<<<"h", "t", "t", "p", ":", "/", "/", "n", "/", "m">>>>}

CallUrl(name) ==
    /\ \E r \in {url(name)} :
           lastOp' = Call("url", name, <<>>, "", FALSE, r.err, r.ret, FALSE)
    /\ UNCHANGED <<config, files, dirs, procs>>

InitUrl ==
    \E given \in GivenBaseUrls, sharding \in Shardings :
        CAStorage_init(given, TRUE, sharding)

NextUrl == \E name \in UrlNames : CallUrl(name)

SpecUrl == InitUrl /\ [][NextUrl]_vars

(***************************************************************************)
(* Concurrent calls of _save, one per caller, step by step.  A caller is   *)
(* at line 128 (pc "exists"), in FileSystemStorage._save at makedirs,      *)
(* at the exclusive create (os.open with O_CREAT | O_EXCL, or the          *)
(* os.access test of file_move_safe), at the rename of file_move_safe, in  *)
(* the loop writing chunks, in the handler of FileExistsError, or at the   *)
(* return.  What the call derives from a name alone (its path, the         *)
(* directories that path needs, the name relative to the location) reads   *)
(* no shared state; a caller works these values out when it starts and     *)
(* looks them up at the step that uses them.                               *)
(***************************************************************************)
ConcNames == {<<"a", ".", "p">>, <<"a">>}

\* path(name), the directories makedirs creates for it, and the name that
\* FileSystemStorage._save returns for it
Resolve(name) ==
    LET fp == path(name)
    IN  IF fp.err # "none"
        THEN [path |-> fp, directories |-> {}, saved |-> None]
        ELSE [path |-> fp, directories |-> Ancestors(dirname(fp.ret)),
              saved |-> relpath(fp.ret, Location)]

\* the names a call that starts with the given stored name can come to use
Resolved(stored) == [n \in {stored, get_available_name(stored)} |-> Resolve(n)]

Done(p, err, ret) ==
    procs' = [procs EXCEPT ![p].pc = "done", ![p].err = err, ![p].ret = ret]

\* lines 124-127: digest, extension, path
Begin(p, name, content) ==
    /\ procs[p].pc = "idle"
    /\ \E d \in {digest(content)} :
         IF d.err # "none"
         THEN procs' = [procs EXCEPT ![p] = [Idle EXCEPT !.pc = "done", !.content = content,
                                                         !.err = d.err]]
         ELSE \E stored \in {stored_name(d.ret, name)} :
              \E r \in {Resolved(stored)} :
                procs' = [procs EXCEPT ![p] =
                             [Idle EXCEPT !.pc = IF r[stored].path.err = "none"
                                                 THEN "exists" ELSE "done",
                                          !.content = content, !.name = stored,
                                          !.full_path = r[stored].path.ret,
                                          !.err = r[stored].path.err,
                                          !.resolved = r]]
    /\ UNCHANGED <<config, files, dirs, lastOp>>

\* lines 128-130: return the digest when the path exists, else save
Exists(p) ==
    /\ procs[p].pc = "exists"
    /\ IF exists(procs[p].full_path)
       THEN Done(p, "none", procs[p].name)
       ELSE procs' = [procs EXCEPT ![p].pc = "makedirs"]
    /\ UNCHANGED <<config, files, dirs, lastOp>>

\* os.makedirs(directory, exist_ok=True)
Makedirs(p) ==
    /\ procs[p].pc = "makedirs"
    /\ LET directories == procs[p].resolved[procs[p].name].directories
       IN  IF \E a \in directories : a \in DOMAIN files
           THEN Done(p, "FileExistsError", None) /\ UNCHANGED dirs
           ELSE /\ dirs' = dirs \cup directories
                /\ procs' = [procs EXCEPT ![p].pc = "create"]
    /\ UNCHANGED <<config, files, lastOp>>

\* the exclusive create of a streamed content, or the existence test of
\* file_move_safe for a content with a temporary file
Create(p) ==
    /\ procs[p].pc = "create"
    /\ LET c == procs[p].content
           fp == procs[p].full_path
       IN  IF exists(fp)
           THEN procs' = [procs EXCEPT ![p].pc = "retry"] /\ UNCHANGED files
           ELSE IF c.kind = "tmp"
           THEN procs' = [procs EXCEPT ![p].pc = "rename"] /\ UNCHANGED files
           ELSE /\ files' = (fp :> <<>>) @@ files
                /\ procs' = [procs EXCEPT ![p].pc = "write",
                                          ![p].todo = File_chunks(c, "bytes")]
    /\ UNCHANGED <<config, dirs, lastOp>>

\* os.rename(old_file_name, new_file_name) of file_move_safe
Rename(p) ==
    /\ procs[p].pc = "rename"
    /\ files' = [f \in (DOMAIN files) \cup {procs[p].full_path} |->
                    IF f = procs[p].full_path THEN procs[p].content.data ELSE files[f]]
    /\ procs' = [procs EXCEPT ![p].pc = "return"]
    /\ UNCHANGED <<config, dirs, lastOp>>

\* for chunk in content.chunks(): _file.write(chunk)
Write(p) ==
    /\ procs[p].pc = "write"
    /\ IF procs[p].todo = <<>>
       THEN procs' = [procs EXCEPT ![p].pc = "return"] /\ UNCHANGED files
       ELSE /\ files' = [files EXCEPT ![procs[p].full_path] = @ \o Head(procs[p].todo).val]
            /\ procs' = [procs EXCEPT ![p].todo = Tail(@)]
    /\ UNCHANGED <<config, dirs, lastOp>>

\* except FileExistsError: name = get_available_name(name); full_path = path(name)
Retry(p) ==
    /\ procs[p].pc = "retry"
    /\ \E name \in {get_available_name(procs[p].name)} :
       \E fp \in {procs[p].resolved[name].path} :
          IF fp.err # "none" THEN Done(p, fp.err, None)
          ELSE procs' = [procs EXCEPT ![p].pc = "create", ![p].name = name,
                                      ![p].full_path = fp.ret]
    /\ UNCHANGED <<config, files, dirs, lastOp>>

\* return the path relative to the location
ReturnSaved(p) ==
    /\ procs[p].pc = "return"
    /\ Done(p, "none", procs[p].resolved[procs[p].name].saved)
    /\ UNCHANGED <<config, files, dirs, lastOp>>

\* the steps of a call that has started
Run(p) ==
    \/ Exists(p)
    \/ Makedirs(p)
    \/ Create(p)
    \/ Rename(p)
    \/ Write(p)
    \/ Retry(p)
    \/ ReturnSaved(p)

Step(p) ==
    \/ \E name \in ConcNames, content \in Sources : Begin(p, name, content)
    \/ Run(p)

NextConc == \E p \in Procs : Step(p)

SpecConc == InitConc /\ [][NextConc]_vars

\* a call that has started and can take a step eventually takes one
FairSpecConc == SpecConc /\ \A p \in Procs : WF_vars(Run(p))

(***************************************************************************)
(* Concurrent removals, step by step.  A caller enters through             *)
(* CAStorage.delete with a physical path, or calls                         *)
(* rm_file_and_empty_parents itself, with or without a root.  A caller in  *)
(* the routine is at stat(root) (pc "stat_root"), at unlink, at the test   *)
(* of the while loop (line 93, pc "test"), at listdir or at rmdir.  The    *)
(* files are those of a directory tree that exists when the calls start,   *)
(* under the location and outside it.                                      *)
(***************************************************************************)
TreeFiles ==
    {<<"/", "d", "/", "a", "/", "b", "/", "f">>,
     <<"/", "d", "/", "a", "/", "c", "/", "g">>,
     <<"/", "d", "/", "h">>,
     <<"/", "o", "/", "p", "/", "q">>}

\* the filesystems with some of these files and the directories above them
Trees == {t \in SUBSET TreeFiles : Cardinality(t) <= MaxFiles}
TreeDirs(t) == {Root, Location} \cup UNION {Ancestors(dirname(f)) : f \in t}

RmRoots == {Location, None}

IdleRm == [pc |-> "idle", entry |-> "", filename |-> <<>>, root |-> None,
           sure |-> FALSE, directory |-> <<>>, iterations |-> 0,
           existed |-> FALSE, unlinked |-> FALSE, err |-> "none"]

InitRm ==
    /\ \E t \in Trees :
           /\ files = [f \in t |-> <<>>]
           /\ dirs = TreeDirs(t)
    /\ base_url = NoUrl
    /\ keep_extension = TRUE
    /\ shard_width = 2
    /\ shard_depth = 2
    /\ lastOp = NoCall
    /\ procs = [p \in Procs |-> IdleRm]

Failed(p, err) == procs' = [procs EXCEPT ![p].pc = "done", ![p].err = err]
Finished(p) == procs' = [procs EXCEPT ![p].pc = "done"]

\* CAStorage.delete(name, sure) with a physical path
BeginDelete(p, name, sure) ==
    /\ procs[p].pc = "idle"
    /\ \E r \in {CAStorage_delete(name, sure)} :
           procs' = [procs EXCEPT ![p] =
                        [IdleRm EXCEPT !.pc = "done", !.entry = "delete", !.filename = name,
                                       !.root = Location, !.sure = sure,
                                       !.existed = name \in DOMAIN files, !.err = r.err]]
    /\ UNCHANGED <<config, files, dirs, lastOp>>

\* rm_file_and_empty_parents(filename, root): lines 86-88
BeginRm(p, filename, root) ==
    /\ procs[p].pc = "idle"
    /\ procs' = [procs EXCEPT ![p] =
                    [IdleRm EXCEPT !.pc = IF root # None THEN "stat_root" ELSE "unlink",
                                   !.entry = "rm", !.filename = filename,
                                   !.root = root, !.sure = TRUE,
                                   !.existed = filename \in DOMAIN files]]
    /\ UNCHANGED <<config, files, dirs, lastOp>>

\* line 89: root_stat = stat(root)
StatRoot(p) ==
    /\ procs[p].pc = "stat_root"
    /\ IF exists(procs[p].root)
       THEN procs' = [procs EXCEPT ![p].pc = "unlink"]
       ELSE Failed(p, "FileNotFoundError")
    /\ UNCHANGED <<config, files, dirs, lastOp>>

\* lines 91-92: unlink(filename); directory = path.dirname(filename)
Unlink(p) ==
    /\ procs[p].pc = "unlink"
    /\ LET filename == procs[p].filename
       IN  IF filename \in dirs
           THEN Failed(p, "OSError") /\ UNCHANGED files
           ELSE IF filename \notin DOMAIN files
           THEN Failed(p, "FileNotFoundError") /\ UNCHANGED files
           ELSE /\ files' = [f \in (DOMAIN files) \ {filename} |-> files[f]]
                /\ procs' = [procs EXCEPT ![p].pc = "test", ![p].unlinked = TRUE,
                                          ![p].directory = dirname(filename)]
    /\ UNCHANGED <<config, dirs, lastOp>>

\* line 93: while not (root and path.samestat(root_stat, stat(directory)))
LoopTest(p) ==
    /\ procs[p].pc = "test"
    /\ IF procs[p].root = None
       THEN procs' = [procs EXCEPT ![p].pc = "listdir",
                                   ![p].iterations = @ + 1]
       ELSE IF ~exists(procs[p].directory)
       THEN Failed(p, "FileNotFoundError")
       ELSE IF procs[p].directory = procs[p].root
       THEN Finished(p)
       ELSE procs' = [procs EXCEPT ![p].pc = "listdir",
                                   ![p].iterations = @ + 1]
    /\ UNCHANGED <<config, files, dirs, lastOp>>

\* lines 94-95: if listdir(directory): break
Listdir(p) ==
    /\ procs[p].pc = "listdir"
    /\ IF procs[p].directory \notin dirs
       THEN Failed(p, "FileNotFoundError")
       ELSE IF listdir(procs[p].directory) # {}
       THEN Finished(p)
       ELSE procs' = [procs EXCEPT ![p].pc = "rmdir"]
    /\ UNCHANGED <<config, files, dirs, lastOp>>

\* an rmdir whose failure is swallowed: the walk goes on upward
RmdirForgiving(p) ==
    /\ procs[p].pc = "rmdir"
    /\ LET directory == procs[p].directory
       IN  /\ dirs' = IF directory \in dirs /\ listdir(directory) = {} /\ directory # Root
                      THEN dirs \ {directory} ELSE dirs
           /\ procs' = [procs EXCEPT ![p].pc = "test",
                                     ![p].directory = dirname(directory)]
    /\ UNCHANGED <<config, files, lastOp>>

\* lines 96-97: rmdir(directory); directory = path.dirname(directory)
Rmdir(p) ==
    /\ procs[p].pc = "rmdir"
    /\ LET directory == procs[p].directory
       IN  IF directory \notin dirs
           THEN Failed(p, "FileNotFoundError") /\ UNCHANGED dirs
           ELSE IF listdir(directory) # {} \/ directory = Root
           THEN Failed(p, "OSError") /\ UNCHANGED dirs
           ELSE /\ dirs' = dirs \ {directory}
                /\ procs' = [procs EXCEPT ![p].pc = "test",
                                          ![p].directory = dirname(directory)]
    /\ UNCHANGED <<config, files, lastOp>>

\* the steps of a removal that has started
RunRm(p) ==
    \/ StatRoot(p)
    \/ Unlink(p)
    \/ LoopTest(p)
    \/ Listdir(p)
    \/ Rmdir(p)

StepRm(p) ==
    \/ \E name \in TreeFiles, sure \in BOOLEAN : BeginDelete(p, name, sure)
    \/ \E filename \in TreeFiles, root \in RmRoots : BeginRm(p, filename, root)
    \/ RunRm(p)

NextRm == \E p \in Procs : StepRm(p)

SpecRm == InitRm /\ [][NextRm]_vars

\* a removal that has started and can take a step eventually takes one
FairSpecRm == SpecRm /\ \A p \in Procs : WF_vars(RunRm(p))

(***************************************************************************)
(* Properties.                                                             *)
(***************************************************************************)
\* the digest of a byte string, hashed in one piece
ContentDigest(data) == hexdigest(update(digestmod, data))
DigestLen == Len(hexdigest(digestmod))

\* the files stored under the root
Stored == {f \in DOMAIN files : StartsWith(f, Location \o <<sep>>)}

\* the file a name given to delete stands for
Target(name) == IF \E i \in 1..Len(name) : name[i] = sep THEN name ELSE path(name).ret

\* C1: calling save(name, C) twice in a row with the same name and content
\* writes once: the second call writes nothing, leaves the filesystem as it
\* is, and returns the name the first call returned.
C1_SaveTwiceWritesOnce ==
    [][(/\ lastOp.op = "save" /\ lastOp.err = "none"
        /\ lastOp'.op = "save"
        /\ lastOp'.name = lastOp.name
        /\ lastOp'.data = lastOp.data
        /\ lastOp'.kind = lastOp.kind)
       => (/\ lastOp'.err = "none"
           /\ ~lastOp'.wrote
           /\ files' = files /\ dirs' = dirs
           /\ lastOp'.ret = lastOp.ret)]_vars

\* C2: no two files stored under the root hold the same bytes.
C2_NoTwoFilesSameBytes ==
    \A f, g \in Stored : f # g => files[f] # files[g]

\* the suffix that follows the digest in the name of a stored file
Suffix(f) == SliceFrom(basename(f), DigestLen)

\* C2 (amended): two distinct stored files hold the same bytes only when the
\* store keeps extensions and their extensions differ.
C2_SameBytesOnlyAcrossExtensions ==
    \A f, g \in Stored :
        (f # g /\ files[f] = files[g]) => (keep_extension /\ Suffix(f) # Suffix(g))

C2_Witness ==
    \E f, g \in Stored : f # g /\ files[f] = files[g] /\ Suffix(f) # Suffix(g)

\* C3: delete(name) without confirmation returns without error and changes
\* no file and no directory; a step that is neither a confirmed delete nor a
\* call of the removal routine removes no stored file.
C3_UnconfirmedDeleteNoOp ==
    [][/\ (lastOp'.op = "delete" /\ ~lastOp'.sure)
            => (lastOp'.err = "none" /\ files' = files /\ dirs' = dirs)
       /\ (lastOp'.op # "rm" /\ ~(lastOp'.op = "delete" /\ lastOp'.sure))
            => (\A f \in DOMAIN files : f \in DOMAIN files' /\ files'[f] = files[f])]_vars

C3_Witness ==
    /\ lastOp.op = "delete" /\ ~lastOp.sure /\ lastOp.err = "none"
    /\ Target(lastOp.name) \in Stored

\* C4: a confirmed delete of a stored object, named by its stored name or by
\* its physical path, completes without error and leaves no file at the path.
C4_ConfirmedDeleteRemoves ==
    [][(/\ lastOp'.op = "delete" /\ lastOp'.sure
        /\ Target(lastOp'.name) \in Stored)
       => (lastOp'.err = "none" /\ Target(lastOp'.name) \notin DOMAIN files')]_vars

\* the directories above f and strictly below the root
AncestorsBelowRoot(f) ==
    {a \in Ancestors(dirname(f)) : StartsWith(a, Location \o <<sep>>)}

\* what lies under directory a, f and the directories above f aside
OthersUnder(a, f) ==
    {q \in (DOMAIN files) \cup dirs :
        /\ StartsWith(q, a \o <<sep>>)
        /\ q # f
        /\ q \notin Ancestors(dirname(f))}

\* C5: when rm_file_and_empty_parents, called with the location as root,
\* removes a file under the root, it removes exactly the directories above the
\* file and strictly below the root that hold nothing else, the file is gone,
\* every other file stays, and the root stays, empty or not.
C5_PruneEmptyAncestors ==
    [][(lastOp'.op = "rm" /\ lastOp'.name \in Stored)
       => (/\ lastOp'.err = "none"
           /\ DOMAIN files' = (DOMAIN files) \ {lastOp'.name}
           /\ Location \in dirs'
           /\ dirs' = dirs \ {a \in AncestorsBelowRoot(lastOp'.name) :
                                 OthersUnder(a, lastOp'.name) = {}})]_vars

C5_Witness ==
    /\ lastOp.op = "rm" /\ lastOp.err = "none"
    /\ dirname(lastOp.name) # Location
    /\ Location \in dirs
    /\ listdir(Location) = {}

\* the components of a path
Components(p) == SelectSeq(Split(p, sep), LAMBDA x : x # <<>>)

\* p is a normalised absolute path at or below the root
InsideRoot(p) ==
    /\ isabs(p)
    /\ ~StartsWith(p, <<sep, sep>>)
    /\ JoinWith(sep, <<<<>>>> \o Components(p)) = p
    /\ \A i \in 1..Len(Components(p)) : Components(p)[i] \notin {dot, dotdot}
    /\ Len(Components(p)) >= Len(Components(Location))
    /\ SubSeq(Components(p), 1, Len(Components(Location))) = Components(Location)

\* C6: path(name) returns a normalised path inside the root, or fails with
\* SuspiciousOperation.
C6_PathInsideRootOrRefused ==
    lastOp.op = "path" =>
        \/ IsSuspiciousOperation(lastOp.err)
        \/ (lastOp.err = "none" /\ InsideRoot(lastOp.ret))

C6_Witness ==
    /\ lastOp.op = "path"
    /\ IsSuspiciousOperation(lastOp.err)
    /\ \E i \in 1..(Len(lastOp.name) - 1) : lastOp.name[i] = "." /\ lastOp.name[i + 1] = "."

\* C7, in every state: each stored file is at the path of its own name, and
\* its name is the digest of its bytes followed by the kept extension.
C7_StoredIsCorrect ==
    \A f \in Stored :
        /\ path(basename(f)) = Return(f)
        /\ SubSeq(basename(f), 1, DigestLen) = ContentDigest(files[f])
        /\ ~keep_extension => Suffix(f) = <<>>

\* C7, in every step: a save changes the bytes of no file that exists.
C7_SaveKeepsBytes ==
    lastOp'.op = "save" => \A f \in DOMAIN files : f \in DOMAIN files' /\ files'[f] = files[f]

\* C7: stored objects are correct in every state and no save changes them.
C7_StoredImmutableAndCorrect == []C7_StoredIsCorrect /\ [][C7_SaveKeepsBytes]_vars

C7_Witness ==
    /\ lastOp.op = "save" /\ lastOp.err = "none" /\ ~lastOp.wrote
    /\ \E f \in Stored : files[f] = lastOp.data /\ files[f] # <<>>

\* both callers save the same content under the same stored name
BothSaveSame ==
    /\ \A p \in Procs : procs[p].pc # "idle" /\ procs[p].name # <<>>
    /\ procs[1].name = procs[2].name
    /\ procs[1].content.data = procs[2].content.data

BothReturnedSame ==
    /\ \A p \in Procs : procs[p].pc = "done" /\ procs[p].err = "none"
    /\ procs[1].ret = procs[2].ret
    /\ procs[1].full_path \in DOMAIN files
    /\ files[procs[1].full_path] = procs[1].content.data

\* C8: two concurrent saves of the same content both return, with the same
\* stored name, and leave the complete content at its path.
C8_ConcurrentSavesSafe == BothSaveSame ~> BothReturnedSame

\* C9: digest(content) succeeds and is the hash of the bytes of the content,
\* whether the content is a temporary file or a sequence of chunks, however
\* the bytes are split into chunks.
C9_DigestDependsOnBytesOnly ==
    lastOp.op = "digest" =>
        (lastOp.err = "none" /\ lastOp.ret = ContentDigest(lastOp.data))

\* the text from the last "." of the last path component, empty without one
LastComponentExt(name) ==
    LET last == basename(name)
    IN  IF RFind1(last, extsep) = 0 THEN <<>> ELSE SliceFrom(last, RFind1(last, extsep) - 1)

\* C10: save returns the digest of the content, followed by the extension of
\* the name when the store keeps extensions.
C10_StoredNameIsDigestPlusExtension ==
    (lastOp.op = "save" /\ lastOp.err = "none") =>
        lastOp.ret = ContentDigest(lastOp.data)
                        \o (IF keep_extension THEN LastComponentExt(lastOp.name) ELSE <<>>)

\* the characters [lo, hi) of s, for hi <= Len(s)
CharsOf(s, lo, hi) == [k \in 1..(hi - lo) |-> s[lo + k]]

\* C11: for width >= 1 and width * depth <= len(s), shard(s, width, depth)
\* without rest_only yields depth + 1 segments: segment i is the characters
\* [width*i, width*(i+1)) of s, and the last segment is s itself.
C11_ShardSegmentsThenWhole ==
    (/\ lastOp.op = "shard" /\ ~lastOp.rest_only
     /\ lastOp.width >= 1
     /\ lastOp.width * lastOp.depth <= Len(lastOp.string))
    => (/\ Len(lastOp.ret) = lastOp.depth + 1
        /\ \A i \in 0..(lastOp.depth - 1) :
               lastOp.ret[i + 1] =
                   CharsOf(lastOp.string, lastOp.width * i, lastOp.width * (i + 1))
        /\ lastOp.ret[lastOp.depth + 1] = lastOp.string)

C11_Witness ==
    /\ lastOp.op = "shard" /\ ~lastOp.rest_only
    /\ lastOp.width = 2 /\ lastOp.depth = 2
    /\ lastOp.string = <<"a", "b", "b", "a">>
    /\ lastOp.ret = <<<<"a", "b">>, <<"b", "a">>, <<"a", "b", "b", "a">>>>

\* C12: a confirmed delete whose target file does not exist fails with a
\* not-found error (raised by the unlink) and changes no file and no directory.
C12_DeleteMissingIsNotFound ==
    [][(/\ lastOp'.op = "delete" /\ lastOp'.sure
        /\ Target(lastOp'.name) \notin DOMAIN files)
       => (/\ lastOp'.err = "FileNotFoundError"
           /\ files' = files /\ dirs' = dirs)]_vars

\* the shard segments of a name joined with "/"
JoinedShards(name) == JoinWith("/", CAStorage_shard(name))

\* C13: a base URL given to the constructor ends with "/", and url(name) is
\* the base URL followed by the shard segments of the name joined with "/".
C13_UrlIsBaseThenShards ==
    /\ base_url # NoUrl => EndsWithChar(base_url[1], "/")
    /\ lastOp.op = "url" =>
           (/\ lastOp.err = "none"
            /\ lastOp.ret = FileSystemStorage_base_url \o JoinedShards(lastOp.name))

\* a relative path whose components are not empty, not "." and not "..", made
\* of characters that quote() leaves as they are
PlainPath(p) ==
    /\ \A i \in 1..Len(p) : p[i] \in always_safe \cup uri_safe
    /\ \A i \in 1..Len(Split(p, "/")) : Split(p, "/")[i] \notin {<<>>, dot, dotdot}

\* C13 (amended): a base URL given to the constructor ends with "/", and
\* url(name) is the base URL followed by the shard segments joined with "/"
\* whenever these form a plain path.
C13_UrlOfPlainShardsIsBaseThenShards ==
    /\ base_url # NoUrl => EndsWithChar(base_url[1], "/")
    /\ (lastOp.op = "url" /\ PlainPath(JoinedShards(lastOp.name))) =>
           (/\ lastOp.err = "none"
            /\ lastOp.ret = FileSystemStorage_base_url \o JoinedShards(lastOp.name))

C13_Witness ==
    /\ lastOp.op = "url" /\ lastOp.err = "none"
    /\ PlainPath(JoinedShards(lastOp.name))
    /\ shard_depth = 2
    /\ base_url = <<<<"h", "t", "t", "p", ":", "/", "/", "n", "/", "m", "/">>>>
    /\ Len(lastOp.ret) = Len(base_url[1]) + Len(JoinedShards(lastOp.name))

\* C14, in every state: digest of a chunk-sequence content succeeds with the
\* digest of all its bytes and leaves the read position at the start.
C14_DigestRewinds ==
    (lastOp.op = "digest_at" /\ lastOp.kind = "mem") =>
        (/\ lastOp.err = "none"
         /\ lastOp.ret = ContentDigest(lastOp.data)
         /\ lastOp.after = 0)

\* C14, in every step: the file a save of a chunk-sequence content creates
\* holds all the bytes of the content.
C14_SaveWritesAll ==
    (lastOp'.op = "save" /\ lastOp'.kind = "mem" /\ lastOp'.wrote) =>
        (/\ Cardinality((DOMAIN files') \ (DOMAIN files)) = 1
         /\ \A f \in (DOMAIN files') \ (DOMAIN files) : files'[f] = lastOp'.data)

\* C14: digest rewinds the source, and the save writes the complete content.
C14_RewoundThenWrittenWhole == []C14_DigestRewinds /\ [][C14_SaveWritesAll]_vars

C14_Witness ==
    /\ lastOp.op = "save" /\ lastOp.kind = "mem" /\ lastOp.wrote
    /\ lastOp.pos = Len(lastOp.data) /\ lastOp.pos > 0
    /\ \E f \in Stored : files[f] = lastOp.data

\* C15: a removal (a confirmed delete, or a call of the removal routine)
\* leaves every file other than its target where it is, with its content, and
\* leaves every directory above such a file in place.
C15_RemovalKeepsOthers ==
    [][(lastOp'.op = "rm" \/ (lastOp'.op = "delete" /\ lastOp'.sure))
       => \A f \in (DOMAIN files) \ {Target(lastOp'.name)} :
              /\ f \in DOMAIN files'
              /\ files'[f] = files[f]
              /\ \A a \in Ancestors(dirname(f)) : a \in dirs => a \in dirs']_vars

C15_Witness ==
    /\ lastOp.op = "rm" /\ lastOp.err = "none"
    /\ lastOp.name \notin DOMAIN files
    /\ \E f \in Stored :
           /\ dirname(f) # dirname(lastOp.name)
           /\ dirname(dirname(f)) = dirname(dirname(lastOp.name))
           /\ dirname(dirname(f)) # Location

\* both callers have made a confirmed delete of the same path under the
\* location, with the location as root, and the path existed when one of them
\* started
BothDeletedSame ==
    /\ \A p \in Procs : procs[p].pc = "done" /\ procs[p].sure /\ procs[p].root = Location
    /\ procs[1].filename = procs[2].filename
    /\ StartsWith(procs[1].filename, Location \o <<sep>>)
    /\ \E p \in Procs : procs[p].existed

\* C16: of two concurrent confirmed deletes of the same existing path exactly
\* one unlinks the file, each ends in success or in a not-found error, and at
\* the end the file is absent and no directory above it and below the root is
\* left empty.
C16_ConcurrentDeletesTolerant ==
    BothDeletedSame =>
        (/\ Cardinality({p \in Procs : procs[p].unlinked}) = 1
         /\ \A p \in Procs : procs[p].err \in {"none", "FileNotFoundError"}
         /\ procs[1].filename \notin DOMAIN files
         /\ \A a \in AncestorsBelowRoot(procs[1].filename) :
                a \in dirs => listdir(a) # {})

\* C17, in every state: the loop of a call has run at most as many times as
\* the file has directories above it.
C17_IterationsBounded ==
    \A p \in Procs :
        procs[p].iterations <= Cardinality(Ancestors(dirname(procs[p].filename)))

\* C17, in every step: a call of the routine that returns from the loop does
\* so at the root or at a directory that is not empty.
C17_EndsAtRootOrNonEmpty ==
    \A p \in Procs :
        (/\ procs[p].pc \in {"test", "listdir"}
         /\ procs'[p].pc = "done" /\ procs'[p].err = "none")
        => \/ (procs[p].root # None /\ procs[p].directory = procs[p].root)
           \/ listdir(procs[p].directory) # {}

\* C17: every call of the routine that has started ends, within that many
\* iterations, at the root, at a directory that is not empty, or in an error.
C17_PruneWalkTerminates ==
    /\ []C17_IterationsBounded
    /\ [][C17_EndsAtRootOrNonEmpty]_vars
    /\ \A p \in Procs : (procs[p].pc # "idle") ~> (procs[p].pc = "done")

C17_Witness ==
    \E p \in Procs :
        /\ procs[p].pc = "done" /\ procs[p].entry = "rm" /\ procs[p].root = None
        /\ procs[p].iterations = 3
        /\ procs[p].iterations = Cardinality(Ancestors(dirname(procs[p].filename)))

\* the number of characters of s at the indices [lo, lo + width)
LenWithin(s, lo, width) == IF lo >= Len(s) THEN 0 ELSE Min(width, Len(s) - lo)

\* C18: when width * depth exceeds len(s), or depth is 0, shard still yields
\* depth + 1 segments: segment i is the part of s that lies in
\* [width*i, width*(i+1)), shorter than width or empty past the end of s, and
\* with depth 0 there is the final segment alone.
C18_ShardOfShortInput ==
    (/\ lastOp.op = "shard"
     /\ (lastOp.width * lastOp.depth > Len(lastOp.string) \/ lastOp.depth = 0))
    => (/\ Len(lastOp.ret) = lastOp.depth + 1
        /\ \A i \in 0..(lastOp.depth - 1) :
               /\ Len(lastOp.ret[i + 1]) = LenWithin(lastOp.string, lastOp.width * i, lastOp.width)
               /\ \A k \in 1..Len(lastOp.ret[i + 1]) :
                      lastOp.ret[i + 1][k] = lastOp.string[lastOp.width * i + k]
        /\ ~lastOp.rest_only => lastOp.ret[lastOp.depth + 1] = lastOp.string)

C18_Witness ==
    /\ lastOp.op = "shard"
    /\ lastOp.width = 2 /\ lastOp.depth = 2
    /\ lastOp.string = <<"a", "b", "b">>
    /\ lastOp.ret[1] = <<"a", "b">> /\ lastOp.ret[2] = <<"b">>

\* all the segments, one after the other
RECURSIVE Flatten(_)
Flatten(segments) ==
    IF segments = <<>> THEN <<>> ELSE Head(segments) \o Flatten(Tail(segments))

\* C19: with rest_only the last segment is s from index width * depth on, and
\* the depth + 1 segments put together are s, for every width >= 0 and depth >= 0.
C19_RestOnlyPartitions ==
    (lastOp.op = "shard" /\ lastOp.rest_only)
    => (/\ Len(lastOp.ret) = lastOp.depth + 1
        /\ Len(lastOp.ret[lastOp.depth + 1]) =
               LenWithin(lastOp.string, lastOp.width * lastOp.depth, Len(lastOp.string))
        /\ \A k \in 1..Len(lastOp.ret[lastOp.depth + 1]) :
               lastOp.ret[lastOp.depth + 1][k] = lastOp.string[lastOp.width * lastOp.depth + k]
        /\ Flatten(lastOp.ret) = lastOp.string)

C19_Witness ==
    /\ lastOp.op = "shard" /\ lastOp.rest_only
    /\ lastOp.width = 1 /\ lastOp.depth = 2
    /\ lastOp.string = <<"a", "b", "b", "a">>
    /\ lastOp.ret = <<<<"a">>, <<"b">>, <<"b", "a">>>>
====
